---- MODULE Spec2Model ----
(***************************************************************************)
(* Model of scrape_books.py: the price parser parse_price, the page        *)
(* extractor scrape_one_page and the pagination loop of main.              *)
(*                                                                         *)
(* Text is a sequence of one-character strings.  The pound sign U+00A3 is   *)
(* written Pound and the mis-decoded lead byte U+00C2 is written ACirc.     *)
(* A float is the exact decimal m / 10^k.                                  *)
(***************************************************************************)
EXTENDS Integers, Sequences, FiniteSets, TLC

\* ------------------------------------------------------------------ bounds

MaxLen == 5
MaxPages == 3
MaxCards == 3
NumUrls == 2

\* ------------------------------------------------------------- characters

Pound == "pound"
ACirc == "Acirc"
DigitSeq == <<"0", "1", "2", "3", "4", "5", "6", "7", "8", "9">>
Digits == {DigitSeq[i] : i \in 1..Len(DigitSeq)}
DigitVal(c) == (CHOOSE i \in 1..Len(DigitSeq) : DigitSeq[i] = c) - 1

\* ------------------------------------------------------------ Python values

NoneValue == [kind |-> "None", m |-> 0, k |-> 0]
Float(m, k) == [kind |-> "float", m |-> m, k |-> k]
ValueError == [kind |-> "ValueError", m |-> 0, k |-> 0]
NoText == [present |-> FALSE, text |-> <<>>]
Text(s) == [present |-> TRUE, text |-> s]

\* a <= b for two floats
FloatLeq(a, b) == a.m * (10 ^ b.k) <= b.m * (10 ^ a.k)
\* a = b for two floats: the one with more decimals is the other followed by zeros
FloatEq(a, b) ==
  LET hi == IF a.k >= b.k THEN a ELSE b
      lo == IF a.k >= b.k THEN b ELSE a
      shift == 10 ^ (hi.k - lo.k)
  IN  hi.m % shift = 0 /\ hi.m \div shift = lo.m

\* ------------------------------------------------------- string primitives

\* str.count(c)
Count(s, c) == Cardinality({i \in 1..Len(s) : s[i] = c})

\* str.rfind(c): 0-based index of the last occurrence, -1 when there is none
RFind(s, c) ==
  IF \E i \in 1..Len(s) : s[i] = c
  THEN (CHOOSE i \in 1..Len(s) : s[i] = c /\ \A j \in (i + 1)..Len(s) : s[j] # c) - 1
  ELSE -1

\* str.replace(c, "")
Remove(s, c) == LET keep(x) == x # c IN SelectSeq(s, keep)

\* str.replace(c, d) for single characters
Replace(s, c, d) == [i \in 1..Len(s) |-> IF s[i] = c THEN d ELSE s[i]]

RECURSIVE DigitsToNat(_)
DigitsToNat(s) ==
  IF s = <<>> THEN 0
  ELSE 10 * DigitsToNat(SubSeq(s, 1, Len(s) - 1)) + DigitVal(s[Len(s)])

\* ------------------------------------------------------------- parse_price

\* re.sub(r"[^0-9.,]", "", raw)
KeepChar(c) == c \in Digits \/ c = "." \/ c = ","
Clean(s) == SelectSeq(s, KeepChar)

\* s.count(",") and s.count(".")
BothSeparators(s) == Count(s, ",") # 0 /\ Count(s, ".") # 0

CommaIsLast_flipped(s) == RFind(s, ",") < RFind(s, ".")
\* s.rfind(",") > s.rfind(".")
CommaIsLast(s) == RFind(s, ",") > RFind(s, ".")

\* the if/else that rewrites the cleaned string before float()
Disambiguate(s) ==
  IF BothSeparators(s)
  THEN IF CommaIsLast(s)
       THEN Replace(Remove(s, "."), ",", ".")
       ELSE Remove(s, ",")
  ELSE Replace(s, ",", ".")

\* float(s) for a string of digits and periods: ValueError unless there is
\* at least one digit and at most one period
float(s) ==
  IF Count(s, ".") > 1 \/ Remove(s, ".") = <<>>
  THEN ValueError
  ELSE Float(DigitsToNat(Remove(s, ".")),
             IF Count(s, ".") = 0 THEN 0 ELSE Len(s) - 1 - RFind(s, "."))

\* the body of the try block
TryParse(text) == float(Disambiguate(Clean(text)))

Except_reraise(r) == r
\* except Exception: return None
Except(r) == IF r.kind = "ValueError" THEN NoneValue ELSE r

parse_price(raw) ==
  IF ~raw.present \/ raw.text = <<>>
  THEN NoneValue
  ELSE Except(TryParse(raw.text))

\* ---------------------------------------------------------------- the site

PageFile == <<"page-1.html", "page-2.html", "page-3.html", "page-4.html">>
PageUrl(i) == <<"https://books.toscrape.com", "catalogue", PageFile[i]>>
PageUrls == {PageUrl(i) : i \in 1..NumUrls}

NoUrl == [present |-> FALSE, url |-> <<>>]
Url(u) == [present |-> TRUE, url |-> u]

\* A card as the parser sees it: which nodes and attributes exist, and their text
Card(anchor, title, href, price, stock) ==
  [hasAnchor |-> anchor, title |-> title, href |-> href, price |-> price, stock |-> stock]

InStock == Text(<<"In stock">>)
CheapCard ==
  Card(TRUE, Text(<<" ", "A">>), Text(<<"a_1", "index.html">>),
       Text(<<ACirc, Pound, "1", "0", ".", "0", "0">>), InStock)
DearCard ==
  Card(TRUE, NoText, NoText, Text(<<Pound, "2", "5", ".", "5", "0", " ">>), InStock)
UnpricedCard ==
  Card(TRUE, Text(<<"C">>), Text(<<"c_3", "index.html">>), Text(<<"N", "/", "A">>), InStock)
NoPriceCard == Card(TRUE, Text(<<"D">>), Text(<<"d_4", "index.html">>), NoText, InStock)
NoStockCard ==
  Card(TRUE, Text(<<"E">>), Text(<<"e_5", "index.html">>), Text(<<Pound, "5", ".", "0", "0">>), NoText)
NoAnchorCard == Card(FALSE, NoText, NoText, Text(<<Pound, "5", ".", "0", "0">>), InStock)
Cards == {CheapCard, DearCard, UnpricedCard, NoPriceCard, NoStockCard, NoAnchorCard}

\* the "li.next a" element: absent, an anchor with an href, or an anchor without
NoNextLink == [present |-> FALSE, href |-> NoText]
NextLinks ==
  {NoNextLink, [present |-> TRUE, href |-> NoText]}
    \cup {[present |-> TRUE, href |-> Text(<<PageFile[i]>>)] : i \in 1..NumUrls}

MaxPrices == {NoneValue, Float(1000, 2)}

\* ---------------------------------------------------------- scrape_one_page

\* urljoin(base, ref) for a relative path: ref replaces the last segment of base
urljoin(base, ref) ==
  IF ref = <<>> THEN base ELSE SubSeq(base, 1, Len(base) - 1) \o ref

\* str.strip() / get_text(strip=True)
RECURSIVE LStrip(_)
LStrip(s) == IF s # <<>> /\ Head(s) = " " THEN LStrip(Tail(s)) ELSE s
RECURSIVE RStrip(_)
RStrip(s) ==
  IF s # <<>> /\ s[Len(s)] = " " THEN RStrip(SubSeq(s, 1, Len(s) - 1)) ELSE s
Strip(s) == RStrip(LStrip(s))

\* price.replace("Â£", "£")
RECURSIVE RepairPound(_)
RepairPound(s) ==
  IF Len(s) >= 2 /\ s[1] = ACirc /\ s[2] = Pound
  THEN <<Pound>> \o RepairPound(SubSeq(s, 3, Len(s)))
  ELSE IF s = <<>> THEN <<>> ELSE <<Head(s)>> \o RepairPound(Tail(s))

\* tag.get(name, "")
GetAttr(attr) == IF attr.present THEN attr.text ELSE <<>>

Row(title, price, price_value, stock, full_url) ==
  [title |-> title, price_raw |-> price, price_value |-> price_value,
   stock |-> stock, url |-> full_url]

Keep_unpriced(max_price, price_value) ==
  max_price.kind = "None" \/ price_value.kind = "None"
    \/ FloatLeq(price_value, max_price)
\* (max_price is None) or (price_value is not None and price_value <= max_price)
Keep(max_price, price_value) ==
  max_price.kind = "None"
    \/ (price_value.kind # "None" /\ FloatLeq(price_value, max_price))

\* the loop body for one card: AttributeError when a node is None; else the row, if kept
ExtractCard(card, url, max_price) ==
  IF ~card.hasAnchor \/ ~card.price.present \/ ~card.stock.present
  THEN [status |-> "AttributeError", rows |-> <<>>]
  ELSE LET title == Strip(GetAttr(card.title))
           price == RepairPound(Strip(card.price.text))
           stock == Strip(card.stock.text)
           full_url == urljoin(url, GetAttr(card.href))
           price_value == parse_price(Text(price))
       IN  [status |-> "ok",
            rows |-> IF Keep(max_price, price_value)
                     THEN <<Row(title, price, price_value, stock, full_url)>>
                     ELSE <<>>]

\* urljoin(url, next_a["href"]) if next_a else None
NextUrl(next, url) ==
  IF ~next.present THEN [status |-> "ok", next_url |-> NoUrl]
  ELSE IF ~next.href.present THEN [status |-> "KeyError", next_url |-> NoUrl]
  ELSE [status |-> "ok", next_url |-> Url(urljoin(url, next.href.text))]

\* --------------------------------------------------------------------- main

VARIABLES
  pages, max_price, start_url,   \* args.pages, args.max_price, args.start_url
  current, page_num, total,      \* the locals of main
  rows, next_url,                \* the list and the link scrape_one_page builds and main receives
  csv,          \* the output file: whether the header row is written, and the rows after it
  pc,           \* where the run is, or how it ended
  exc,          \* the exception that ended the run, "none" before
  requested,    \* the URL of the last request made
  nfetch,       \* the number of requests made
  sleeps,       \* the number of time.sleep calls made
  served,       \* the number of cards the site has served in this run
  expected,     \* the rows owed so far: every well-formed card received that passes the filter
  raw, result, ppc   \* one call of parse_price: its argument, its result, whether it returned

vars == <<pages, max_price, start_url, current, page_num, total, rows, next_url,
          csv, pc, exc, requested, nfetch, sleeps, served, expected, raw, result, ppc>>

args == <<pages, max_price, start_url>>
price_vars == <<raw, result, ppc>>
main_vars == <<pages, max_price, start_url, current, page_num, total, rows, next_url,
               csv, pc, exc, requested, nfetch, sleeps, served, expected>>

Ended == {"exhausted", "budget_reached", "fetch_failed", "crashed"}

\* The row a card owes the output: none unless it is well formed and passes the filter
WellFormedCard(card) == card.hasAnchor /\ card.price.present /\ card.stock.present
ExpectedRow(card, url, limit) ==
  IF ~WellFormedCard(card) THEN <<>>
  ELSE LET value == parse_price(Text(RepairPound(Strip(card.price.text))))
       IN  IF limit.kind = "None" \/ (value.kind = "float" /\ FloatLeq(value, limit))
           THEN ExtractCard(card, url, NoneValue).rows
           ELSE <<>>

Init ==
  /\ pages \in 0..MaxPages
  /\ max_price \in MaxPrices
  /\ start_url \in PageUrls
  /\ current = start_url
  /\ page_num = 0
  /\ total = 0
  /\ rows = <<>>
  /\ next_url = NoUrl
  /\ csv = [header |-> FALSE, rows |-> <<>>]
  /\ pc = "open"
  /\ exc = "none"
  /\ requested = NoUrl
  /\ nfetch = 0
  /\ sleeps = 0
  /\ served = 0
  /\ expected = <<>>
  /\ raw = NoText
  /\ result = NoneValue
  /\ ppc = "idle"

\* with open(...) as f: writer.writerow([...header...])
OpenOutput ==
  /\ pc = "open"
  /\ csv' = [csv EXCEPT !.header = TRUE]
  /\ pc' = "for"
  /\ UNCHANGED <<args, current, page_num, total, rows, next_url, exc, requested,
                 nfetch, sleeps, served, expected, price_vars>>

\* for page_num in range(1, args.pages + 1): the next iteration
ForNext ==
  /\ pc = "for"
  /\ page_num < pages
  /\ page_num' = page_num + 1
  /\ pc' = "get"
  /\ UNCHANGED <<args, current, total, rows, next_url, csv, exc, requested, nfetch,
                 sleeps, served, expected, price_vars>>

\* for page_num in range(1, args.pages + 1): the range is used up
ForDone ==
  /\ pc = "for"
  /\ page_num >= pages
  /\ pc' = "budget_reached"
  /\ UNCHANGED <<args, current, page_num, total, rows, next_url, csv, exc, requested,
                 nfetch, sleeps, served, expected, price_vars>>

Propagate_swallow(e) == IF e = "HTTPError" THEN "for" ELSE "crashed"
\* no try/except in scrape_one_page or main: an exception leaves through the with block
Propagate(e) == IF e = "HTTPError" THEN "fetch_failed" ELSE "crashed"

\* scrape_one_page: resp = requests.get(url, ...); resp.raise_for_status(); rows = []
Get ==
  /\ pc = "get"
  /\ requested' = Url(current)
  /\ nfetch' = nfetch + 1
  /\ \E ok \in BOOLEAN :
       IF ok
       THEN /\ rows' = <<>>
            /\ pc' = "cards"
            /\ exc' = exc
       ELSE /\ rows' = rows
            /\ pc' = Propagate("HTTPError")
            /\ exc' = "HTTPError"
  /\ UNCHANGED <<args, current, page_num, total, next_url, csv, sleeps, served,
                 expected, price_vars>>

\* scrape_one_page: one turn of for card in soup.select("article.product_pod")
ScrapeCard ==
  /\ pc = "cards"
  /\ served < MaxCards
  /\ served' = served + 1
  /\ \E card \in Cards :
       LET out == ExtractCard(card, current, max_price)
       IN  /\ expected' = expected \o ExpectedRow(card, current, max_price)
           /\ IF out.status = "ok"
              THEN /\ rows' = rows \o out.rows
                   /\ pc' = pc
                   /\ exc' = exc
              ELSE /\ rows' = rows
                   /\ pc' = Propagate(out.status)
                   /\ exc' = out.status
  /\ UNCHANGED <<args, current, page_num, total, next_url, csv, requested, nfetch,
                 sleeps, price_vars>>

\* scrape_one_page: after the last card, the next link and the return
ScrapeNext ==
  /\ pc = "cards"
  /\ \E link \in NextLinks :
       LET out == NextUrl(link, current)
       IN  IF out.status = "ok"
           THEN /\ next_url' = out.next_url
                /\ pc' = "write"
                /\ exc' = exc
           ELSE /\ next_url' = next_url
                /\ pc' = Propagate(out.status)
                /\ exc' = out.status
  /\ UNCHANGED <<args, current, page_num, total, rows, csv, requested, nfetch,
                 sleeps, served, expected, price_vars>>

\* writer.writerows(rows); total += len(rows); print(...)
Write ==
  /\ pc = "write"
  /\ csv' = [csv EXCEPT !.rows = @ \o rows]
  /\ total' = total + Len(rows)
  /\ pc' = "check"
  /\ UNCHANGED <<args, current, page_num, rows, next_url, exc, requested, nfetch,
                 sleeps, served, expected, price_vars>>

\* not next_url
NotUrl(u) == ~u.present \/ u.url = <<>>

Break_sleepFirst ==
  /\ pc = "check"
  /\ NotUrl(next_url)
  /\ sleeps' = sleeps + 1
  /\ pc' = "exhausted"
  /\ UNCHANGED <<args, current, page_num, total, rows, next_url, csv, exc, requested,
                 nfetch, served, expected, price_vars>>
\* if not next_url: break
Break ==
  /\ pc = "check"
  /\ NotUrl(next_url)
  /\ pc' = "exhausted"
  /\ UNCHANGED <<args, current, page_num, total, rows, next_url, csv, exc, requested,
                 nfetch, sleeps, served, expected, price_vars>>

SleepAdvance_stay ==
  /\ pc = "check"
  /\ ~NotUrl(next_url)
  /\ sleeps' = sleeps + 1
  /\ pc' = "for"
  /\ UNCHANGED <<args, current, page_num, total, rows, next_url, csv, exc, requested,
                 nfetch, served, expected, price_vars>>
\* time.sleep(args.delay); current = next_url
SleepAdvance ==
  /\ pc = "check"
  /\ ~NotUrl(next_url)
  /\ sleeps' = sleeps + 1
  /\ current' = next_url.url
  /\ pc' = "for"
  /\ UNCHANGED <<args, page_num, total, rows, next_url, csv, exc, requested, nfetch,
                 served, expected, price_vars>>

Next ==
  \/ OpenOutput \/ ForNext \/ ForDone \/ Get \/ ScrapeCard \/ ScrapeNext
  \/ Write \/ Break \/ SleepAdvance

Spec == Init /\ [][Next]_vars

\* A run that is not stopped from outside takes its next step
FairSpec == Spec /\ WF_vars(Next)

\* ------------------------------------------------ parse_price on its own

Alphabet == {"1", "5", ",", ".", Pound}
BoundedTexts == UNION {[1..n -> Alphabet] : n \in 0..MaxLen}
Examples ==
  { <<"1", ".", "2", "3", "4", ",", "5", "6">>,
    <<"1", ",", "2", "3", "4", ".", "5", "6">>,
    <<Pound, "5", "1", ".", "7", "7">>,
    <<"N", "/", "A">>,
    <<"1", ",", "2", "3", "4", ",", "5", "6", "7">>,
    <<"1", ".", "2", "3", "4", ".", "5", "6", "7">> }

InitPrice ==
  /\ raw \in {NoText} \cup {Text(s) : s \in BoundedTexts \cup Examples}
  /\ result = NoneValue
  /\ ppc = "call"
  /\ pages = 0
  /\ max_price = NoneValue
  /\ start_url = PageUrl(1)
  /\ current = PageUrl(1)
  /\ page_num = 0
  /\ total = 0
  /\ rows = <<>>
  /\ next_url = NoUrl
  /\ csv = [header |-> FALSE, rows |-> <<>>]
  /\ pc = "idle"
  /\ exc = "none"
  /\ requested = NoUrl
  /\ nfetch = 0
  /\ sleeps = 0
  /\ served = 0
  /\ expected = <<>>

\* result = parse_price(raw)
CallParsePrice ==
  /\ ppc = "call"
  /\ result' = parse_price(raw)
  /\ ppc' = "returned"
  /\ UNCHANGED <<raw, main_vars>>

NextPrice == CallParsePrice

SpecPrice == InitPrice /\ [][NextPrice]_vars

\* ------------------------------------------------------------------ claims

Normal == {"exhausted", "budget_reached", "fetch_failed"}

\* The rows of the page just scraped are the last rows of the file
Emitted ==
  /\ Len(csv.rows) >= Len(rows)
  /\ SubSeq(csv.rows, Len(csv.rows) - Len(rows) + 1, Len(csv.rows)) = rows

\* C1 as stated: a run makes at most page_budget requests and, once it has ended,
\* is in one of the three terminal states exhausted, budget reached or fetch failed;
\* with page_budget = 1 it has made exactly one request, with page_budget = 0 none.
C1_Original ==
  /\ nfetch <= pages
  /\ pc \in Ended => pc \in Normal
  /\ (pc \in Ended /\ pages = 1) => nfetch = 1
  /\ pages = 0 => nfetch = 0

\* What does hold of C1: the request count, whatever way the run ends
FetchesWithinBudget ==
  /\ nfetch <= pages
  /\ (pc \in Ended /\ pages = 1) => nfetch = 1
  /\ pages = 0 => nfetch = 0

\* What does hold of C1: every run ends (checked under FairSpec)
RunEnds == <>(pc \in Ended)

\* C2: when scrape_one_page has returned no next_url, the page's rows are already
\* in the file and the next step ends the run normally: no request, no sleep, no
\* further write; and nothing happens after the run is exhausted.
C2_AbsentNextEndsRun ==
  /\ [](pc \in {"check", "exhausted"} => Emitted)
  /\ [](pc = "exhausted" => exc = "none" /\ NotUrl(next_url))
  /\ [][(pc = "check" /\ NotUrl(next_url))
          => (pc' = "exhausted" /\ nfetch' = nfetch /\ sleeps' = sleeps
              /\ csv' = csv /\ requested' = requested)]_vars
  /\ [][pc # "exhausted"]_vars

C2_Witness ==
  pc = "exhausted" /\ page_num < pages /\ page_num = 2 /\ rows # <<>>

\* C3 as stated: the run waits only between two requests, so once it has ended it
\* has waited fewer times than it has made requests (or has done neither).
C3_Original == pc \in Ended => (sleeps < nfetch \/ (sleeps = 0 /\ nfetch = 0))

\* C4: when request number k is answered with an error, the run is over
\* (abnormally, one request per iteration, no step follows), the failing step leaves
\* the file as it was, and the file holds the header and exactly the rows owed by
\* the pages received before.
C4_FetchFailureEndsRun ==
  /\ [](exc = "HTTPError"
          => /\ pc = "fetch_failed"
             /\ nfetch = page_num
             /\ csv.header
             /\ csv.rows = expected
             /\ total = Len(csv.rows))
  /\ [][exc' = "HTTPError" => (csv' = csv /\ nfetch' = nfetch + 1)]_vars
  /\ [][exc # "HTTPError"]_vars

C4_Witness ==
  pc = "fetch_failed" /\ page_num = 2 /\ csv.header /\ Len(csv.rows) >= 2

\* C5 as stated: a card that lacks a sub-element never ends the run.
C5_Original == exc # "AttributeError"

\* C6: every row in the file satisfies the filter: max_price is None, or the row
\* has a price_value and it is at most max_price.
SatisfiesFilter(row) ==
  max_price.kind = "None"
    \/ (row.price_value.kind = "float" /\ FloatLeq(row.price_value, max_price))
C6_RowsSatisfyFilter == \A i \in 1..Len(csv.rows) : SatisfiesFilter(csv.rows[i])

C6_Witness ==
  /\ pc = "exhausted"
  /\ max_price.kind = "float"
  /\ Len(csv.rows) = 1
  /\ served = 3

\* C9: the first request is for start_url and every later one for the next_url the
\* previous scrape_one_page returned; current changes only in main's advance step,
\* to that next_url, within the iteration.
C9_CursorFollowsNext ==
  /\ [][nfetch' # nfetch
          => requested' = (IF nfetch = 0 THEN Url(start_url) ELSE next_url)]_vars
  /\ [][current' # current
          => (pc = "check" /\ pc' = "for" /\ current' = next_url.url
              /\ page_num' = page_num)]_vars

C9_Witness ==
  nfetch = 3 /\ requested # Url(start_url) /\ requested = next_url

\* C10 as stated: once the run has ended, the file holds exactly the rows owed by
\* the pages received, page by page and card by card.
C10_Original == pc \in Ended => csv.rows = expected

\* What does hold of C10: the same, for the runs no exception from the extraction ends
OutputCompleteUnlessCrashed == pc \in Normal => csv.rows = expected

\* --------------------------------------------------- claims on parse_price

IsSeparator(c) == c = "," \/ c = "."
IsDigit(c) == c \in Digits
LastSeparator(s) ==
  IF \E i \in 1..Len(s) : IsSeparator(s[i])
  THEN CHOOSE i \in 1..Len(s) :
         IsSeparator(s[i]) /\ \A j \in (i + 1)..Len(s) : ~IsSeparator(s[j])
  ELSE 0

\* A price text is well formed when it has a digit and its rightmost separator is
\* the only one of its kind: the separators before it are thousands separators
WellFormedPrice(text) ==
  LET s == Clean(text)
      p == LastSeparator(s)
  IN  /\ \E i \in 1..Len(s) : IsDigit(s[i])
      /\ p # 0 => Count(s, s[p]) = 1

\* The number a well-formed price text stands for: its digits, with as many
\* decimals as there are digits after the rightmost separator
ReferenceValue(text) ==
  LET s == Clean(text)
      p == LastSeparator(s)
  IN  Float(DigitsToNat(SelectSeq(text, IsDigit)), IF p = 0 THEN 0 ELSE Len(s) - p)

\* C7: for every well-formed price text parse_price returns the reference value:
\* the rightmost separator is the decimal point, a lone comma included.
C7_RightmostSeparatorIsDecimal ==
  (ppc = "returned" /\ raw.present /\ WellFormedPrice(raw.text))
    => /\ result.kind = "float"
       /\ FloatEq(result, ReferenceValue(raw.text))
       /\ raw.text = <<"1", ".", "2", "3", "4", ",", "5", "6">> => result = Float(123456, 2)
       /\ raw.text = <<"1", ",", "2", "3", "4", ".", "5", "6">> => result = Float(123456, 2)
       /\ raw.text = <<Pound, "5", "1", ".", "7", "7">> => result = Float(5177, 2)
       /\ raw.text = <<"1", ",", "5">> => result = Float(15, 1)

C7_Witness ==
  /\ ppc = "returned"
  /\ raw.text = <<"1", ".", "2", "3", "4", ",", "5", "6">>
  /\ result = Float(123456, 2)

\* C8: parse_price returns a float or None and raises nothing; it returns None for
\* a missing or empty argument, when no digit is left after cleaning, and when more
\* than one separator is left after the disambiguation.
C8_NoneInsteadOfFailure ==
  ppc = "returned"
    => /\ result.kind \in {"float", "None"}
       /\ (~raw.present \/ raw.text = <<>>) => result = NoneValue
       /\ (\A i \in 1..Len(raw.text) : ~IsDigit(raw.text[i])) => result = NoneValue
       /\ LET s == Disambiguate(Clean(raw.text))
          IN  Count(s, ".") + Count(s, ",") > 1 => result = NoneValue
       /\ raw.text \in { <<"N", "/", "A">>,
                         <<"1", ",", "2", "3", "4", ",", "5", "6", "7">>,
                         <<"1", ".", "2", "3", "4", ".", "5", "6", "7">> }
            => result = NoneValue

C8_Witness ==
  /\ ppc = "returned"
  /\ raw.text = <<"1", ",", "2", "3", "4", ",", "5", "6", "7">>
  /\ result = NoneValue

====
